---- MODULE Spec2Model ----
(***************************************************************************)
(* A model of the arena-backed B+ tree of bplustree.hpp                    *)
(* (src/unnamed/part_000): the bump allocator Arena, the Node layout, and  *)
(* BPlusTree<int, int, M> with insert, remove, findLinear, findBinary and  *)
(* findSIMD.                                                               *)
(*                                                                         *)
(* A pointer is the integer address memory + offset handed out by the      *)
(* arena; the heap maps every address handed out to the Node stored there. *)
(* A node's arrays are modelled by their valid prefix, slots [0, num_keys) *)
(* (children: [0, num_keys]); what lies behind it is indeterminate and is  *)
(* supplied to the one routine that reads it (findSIMD) as an arbitrary    *)
(* lane content.  Sequences are 1-based: C index i is sequence index i+1.  *)
(***************************************************************************)
EXTENDS Integers, Sequences, FiniteSets, TLC

VARIABLES arena, heap, root, last, nops, poisoned, blocks

vars == <<arena, heap, root, last, nops, poisoned, blocks>>

----------------------------------------------------------------------------
(* Bounds of the model *)

\* keys passed to insert/remove/find are 1..MaxKey
MaxKey == 3
\* number of mutating calls (insert/remove) after the initial tree
MaxOps == 2
\* the arena holds at most MaxNodes nodes
MaxNodes == 8
\* width of size_t in bits (scaled down from 64)
SizeBits == 10
\* number of allocate calls made on the arena taken on its own
MaxCalls == 3
\* length of the ascending run 1, 2, .. inserted into a new tree
MaxRun == 10
\* keys in use in a node searched on its own (more than one vector)
MaxSlots == 9
\* nodes a tight arena has room for beyond those of the initial tree
MaxSpare == 2

----------------------------------------------------------------------------
(* Program constants *)

\* template parameter M: the fan-out
M == 4
\* cache line size used by Arena::allocate
CacheLine == 64
\* lanes of one 256-bit vector of 32-bit keys
Lanes == 8

NULL == -1
NoValue == 0

SizeMod == 2 ^ SizeBits

Keys == 1 .. MaxKey
\* values passed to insert: two values, so that an overwrite shows
Values == {1, 2}

\* sizeof(Node) for KeyType = ValueType = int: bool + uint16_t header (4
\* bytes), keys[M], the union aligned to 8 (a pointer), the whole aligned to 64
RoundUp(x, a) == ((x + a - 1) \div a) * a
Max(a, b) == IF a >= b THEN a ELSE b
SizeofNode ==
    LET keysEnd == 4 + 4 * M
        unionAt == RoundUp(keysEnd, 8)
        unionSz == Max(4 * M, 8 * (M + 1))
    IN  RoundUp(unionAt + unionSz, CacheLine)

\* ARENA_SIZE, scaled to the model
ARENA_SIZE == MaxNodes * SizeofNode

\* F applied to the value of x, x being evaluated once
Bind(x, F(_)) == CHOOSE y \in {F(v) : v \in {x}} : TRUE

----------------------------------------------------------------------------
(* Arena *)

\* Arena::Arena(size): offset(0), capacity(size), memory = malloc(size)
ArenaNew(base, size) == [memory |-> base, offset |-> 0, capacity |-> size]

\* global_arena == nullptr: no arena is active
NoArena == [memory |-> NULL, offset |-> 0, capacity |-> 0]

\* the messages of the two std::runtime_error thrown on the allocation path
ArenaUnavailable == "Arena not initialized"
OutOfArena == "Arena out of memory"

\* mutant of AlignedBytes: (bytes + 64) & ~63, which takes a further line
\* for a request that is a multiple of 64 already
AlignedBytesOver(bytes) ==
    LET s == (bytes + CacheLine) % SizeMod
    IN  s - (s % CacheLine)

\* (bytes + 63) & ~63 in size_t arithmetic
AlignedBytes(bytes) ==
    LET s == (bytes + (CacheLine - 1)) % SizeMod
    IN  s - (s % CacheLine)

\* Arena::allocate: the result is [threw, ptr, arena]
ArenaAllocate(ar, bytes) ==
    LET aligned_bytes == AlignedBytes(bytes)
    IN  IF (ar.offset + aligned_bytes) % SizeMod > ar.capacity
        THEN [threw |-> TRUE, ptr |-> NULL, arena |-> ar]
        ELSE [threw |-> FALSE,
              ptr   |-> ar.memory + ar.offset,
              arena |-> [ar EXCEPT !.offset = (@ + aligned_bytes) % SizeMod]]

\* Arena::reset
ArenaReset(ar) == [ar EXCEPT !.offset = 0]

\* Arena::get_used_memory, Arena::get_capacity
get_used_memory(ar) == ar.offset
get_capacity(ar) == ar.capacity

----------------------------------------------------------------------------
(* Node *)

\* Node::Node(bool leaf): is_leaf(leaf), num_keys(0), arrays uninitialized
Node(leaf) ==
    [is_leaf |-> leaf, num_keys |-> 0, keys |-> <<>>, values |-> <<>>,
     children |-> <<>>]

\* mutant of NewNode: operator new without the test of global_arena
NewNodeUnchecked(h, ar, leaf) ==
    Bind(ArenaAllocate(ar, SizeofNode), LAMBDA a :
        IF a.threw
        THEN [threw |-> TRUE, what |-> OutOfArena, ptr |-> NULL,
              arena |-> ar, heap |-> h]
        ELSE [threw |-> FALSE, what |-> "", ptr |-> a.ptr, arena |-> a.arena,
              heap |-> (a.ptr :> Node(leaf)) @@ h])

\* Node::operator new followed by the constructor; ar is *global_arena.
\* Result: [threw, what, ptr, arena, heap]
NewNode(h, ar, leaf) ==
    IF ar = NoArena
    THEN [threw |-> TRUE, what |-> ArenaUnavailable, ptr |-> NULL,
          arena |-> ar, heap |-> h]
    ELSE
    Bind(ArenaAllocate(ar, SizeofNode), LAMBDA a :
        IF a.threw
        THEN [threw |-> TRUE, what |-> OutOfArena, ptr |-> NULL,
              arena |-> ar, heap |-> h]
        ELSE [threw |-> FALSE, what |-> "", ptr |-> a.ptr, arena |-> a.arena,
              heap |-> (a.ptr :> Node(leaf)) @@ h])

InsertAt(s, i, x) == SubSeq(s, 1, i) \o <<x>> \o SubSeq(s, i + 1, Len(s))
RemoveAt(s, i) == SubSeq(s, 1, i) \o SubSeq(s, i + 2, Len(s))

----------------------------------------------------------------------------
(* BPlusTree: insertion *)

\* the index search of insert_recursive: while (i < num_keys && key > keys[i]) i++
RECURSIVE InsertIndexFrom(_, _, _)
InsertIndexFrom(node, key, i) ==
    IF i < node.num_keys /\ key > node.keys[i + 1]
    THEN InsertIndexFrom(node, key, i + 1)
    ELSE i

InsertIndex(node, key) == InsertIndexFrom(node, key, 0)

\* mutant of SplitNeeded: the split check made one key too late
SplitNeededLate(num_keys) == num_keys > M

\* the split check of both cases of insert_recursive: num_keys >= M
SplitNeeded(num_keys) == num_keys >= M

\* mutant of split_leaf: the median moves up as in split_internal, the new
\* leaf starting behind it
split_leaf_move_up(h, ar, p) ==
    LET node == h[p]
        mid  == M \div 2
    IN  Bind(NewNode(h, ar, TRUE), LAMBDA a :
        IF a.threw
        THEN [threw |-> TRUE, what |-> a.what, heap |-> h, arena |-> ar,
              new_sibling |-> NULL, median |-> 0]
        ELSE
        LET num_moving == node.num_keys - (mid + 1)
            new_leaf == [Node(TRUE) EXCEPT
                           !.keys = SubSeq(node.keys, mid + 2, mid + 1 + num_moving),
                           !.values = SubSeq(node.values, mid + 2, mid + 1 + num_moving),
                           !.num_keys = num_moving]
            old_leaf == [node EXCEPT
                           !.keys = SubSeq(node.keys, 1, mid),
                           !.values = SubSeq(node.values, 1, mid),
                           !.num_keys = mid]
        IN  [threw |-> FALSE, what |-> "",
             heap |-> [a.heap EXCEPT ![p] = old_leaf, ![a.ptr] = new_leaf],
             arena |-> a.arena,
             new_sibling |-> a.ptr,
             median |-> node.keys[mid + 1]])

\* split_leaf(node, new_leaf, median); p is the address of node.
\* Result: [threw, heap, arena, new_sibling, median]
split_leaf(h, ar, p) ==
    LET node == h[p]
        mid  == M \div 2
    IN  Bind(NewNode(h, ar, TRUE), LAMBDA a :
        IF a.threw
        THEN [threw |-> TRUE, what |-> a.what, heap |-> h, arena |-> ar,
              new_sibling |-> NULL, median |-> 0]
        ELSE
        LET num_moving == node.num_keys - mid
            new_leaf == [Node(TRUE) EXCEPT
                           !.keys = SubSeq(node.keys, mid + 1, mid + num_moving),
                           !.values = SubSeq(node.values, mid + 1, mid + num_moving),
                           !.num_keys = num_moving]
            old_leaf == [node EXCEPT
                           !.keys = SubSeq(node.keys, 1, mid),
                           !.values = SubSeq(node.values, 1, mid),
                           !.num_keys = mid]
        IN  [threw |-> FALSE, what |-> "",
             heap |-> [a.heap EXCEPT ![p] = old_leaf, ![a.ptr] = new_leaf],
             arena |-> a.arena,
             new_sibling |-> a.ptr,
             median |-> new_leaf.keys[1]])

\* mutant of split_internal: the new node is built as split_leaf builds it,
\* with new Node(true)
split_internal_as_leaf(h, ar, p) ==
    LET node == h[p]
        mid  == M \div 2
    IN  Bind(NewNode(h, ar, TRUE), LAMBDA a :
        IF a.threw
        THEN [threw |-> TRUE, what |-> a.what, heap |-> h, arena |-> ar,
              new_sibling |-> NULL, median |-> 0]
        ELSE
        LET num_keys_moving == node.num_keys - (mid + 1)
            num_children_moving == num_keys_moving + 1
            new_node == [Node(TRUE) EXCEPT
                           !.keys = SubSeq(node.keys, mid + 2, mid + 1 + num_keys_moving),
                           !.children = SubSeq(node.children, mid + 2,
                                               mid + 1 + num_children_moving),
                           !.num_keys = num_keys_moving]
            old_node == [node EXCEPT
                           !.keys = SubSeq(node.keys, 1, mid),
                           !.children = SubSeq(node.children, 1, mid + 1),
                           !.num_keys = mid]
        IN  [threw |-> FALSE, what |-> "",
             heap |-> [a.heap EXCEPT ![p] = old_node, ![a.ptr] = new_node],
             arena |-> a.arena,
             new_sibling |-> a.ptr,
             median |-> node.keys[mid + 1]])

\* mutant of split_internal: the median is copied up as in split_leaf, the
\* new node starting at it
split_internal_copy_up(h, ar, p) ==
    LET node == h[p]
        mid  == M \div 2
    IN  Bind(NewNode(h, ar, FALSE), LAMBDA a :
        IF a.threw
        THEN [threw |-> TRUE, what |-> a.what, heap |-> h, arena |-> ar,
              new_sibling |-> NULL, median |-> 0]
        ELSE
        LET num_keys_moving == node.num_keys - mid
            num_children_moving == num_keys_moving + 1
            new_node == [Node(FALSE) EXCEPT
                           !.keys = SubSeq(node.keys, mid + 1, mid + num_keys_moving),
                           !.children = SubSeq(node.children, mid + 1,
                                               mid + num_children_moving),
                           !.num_keys = num_keys_moving]
            old_node == [node EXCEPT
                           !.keys = SubSeq(node.keys, 1, mid),
                           !.children = SubSeq(node.children, 1, mid + 1),
                           !.num_keys = mid]
        IN  [threw |-> FALSE, what |-> "",
             heap |-> [a.heap EXCEPT ![p] = old_node, ![a.ptr] = new_node],
             arena |-> a.arena,
             new_sibling |-> a.ptr,
             median |-> node.keys[mid + 1]])

\* split_internal(node, new_node, median); p is the address of node
split_internal(h, ar, p) ==
    LET node == h[p]
        mid  == M \div 2
    IN  Bind(NewNode(h, ar, FALSE), LAMBDA a :
        IF a.threw
        THEN [threw |-> TRUE, what |-> a.what, heap |-> h, arena |-> ar,
              new_sibling |-> NULL, median |-> 0]
        ELSE
        LET num_keys_moving == node.num_keys - (mid + 1)
            num_children_moving == num_keys_moving + 1
            new_node == [Node(FALSE) EXCEPT
                           !.keys = SubSeq(node.keys, mid + 2, mid + 1 + num_keys_moving),
                           !.children = SubSeq(node.children, mid + 2,
                                               mid + 1 + num_children_moving),
                           !.num_keys = num_keys_moving]
            old_node == [node EXCEPT
                           !.keys = SubSeq(node.keys, 1, mid),
                           !.children = SubSeq(node.children, 1, mid + 1),
                           !.num_keys = mid]
        IN  [threw |-> FALSE, what |-> "",
             heap |-> [a.heap EXCEPT ![p] = old_node, ![a.ptr] = new_node],
             arena |-> a.arena,
             new_sibling |-> a.ptr,
             median |-> node.keys[mid + 1]])

\* insert_recursive(node, key, value, new_sibling, median); p is the address
\* of node.  Result: [threw, what, heap, arena, new_sibling, median, hi_key,
\* hi_child, splits], hi_key / hi_child being the highest index of a keys[]
\* (and values[]) / children[] slot written by the shifts and stores (-1:
\* none), splits the number of split_leaf and split_internal calls made.
RECURSIVE insert_recursive(_, _, _, _, _)
insert_recursive(h, ar, p, key, value) ==
    LET node == h[p]
        i    == InsertIndex(node, key)
    IN  IF node.is_leaf
        THEN
          IF i > 0 /\ node.keys[i] = key
          THEN \* update existing value: keys[i - 1] == key
               [threw |-> FALSE, what |-> "",
                heap |-> [h EXCEPT ![p].values[i] = value],
                arena |-> ar, new_sibling |-> NULL, median |-> 0,
                hi_key |-> i - 1, hi_child |-> -1, splits |-> 0]
          ELSE
          \* shift right from i, store (key, value) at i, num_keys++
          Bind([h EXCEPT ![p] = [node EXCEPT
                                   !.keys = InsertAt(@, i, key),
                                   !.values = InsertAt(@, i, value),
                                   !.num_keys = @ + 1]], LAMBDA h1 :
            IF SplitNeeded(h1[p].num_keys)
            THEN Bind(split_leaf(h1, ar, p), LAMBDA s :
                   [threw |-> s.threw, what |-> s.what,
                    heap |-> s.heap, arena |-> s.arena,
                    new_sibling |-> s.new_sibling, median |-> s.median,
                    hi_key |-> node.num_keys, hi_child |-> -1,
                    splits |-> IF s.threw THEN 0 ELSE 1])
            ELSE [threw |-> FALSE, what |-> "", heap |-> h1, arena |-> ar,
                  new_sibling |-> NULL, median |-> 0,
                  hi_key |-> node.num_keys, hi_child |-> -1, splits |-> 0])
        ELSE
          Bind(insert_recursive(h, ar, node.children[i + 1], key, value), LAMBDA c :
            IF c.threw \/ c.new_sibling = NULL
            THEN c
            ELSE
            \* child split: insert median and pointer into this node
            LET hk == Max(c.hi_key, node.num_keys)
                hc == Max(c.hi_child, node.num_keys + 1)
            IN  Bind([c.heap EXCEPT ![p] = [node EXCEPT
                                   !.keys = InsertAt(@, i, c.median),
                                   !.children = InsertAt(@, i + 1, c.new_sibling),
                                   !.num_keys = @ + 1]], LAMBDA h1 :
                  IF SplitNeeded(h1[p].num_keys)
                  THEN Bind(split_internal(h1, c.arena, p), LAMBDA s :
                         [threw |-> s.threw, what |-> s.what,
                          heap |-> s.heap, arena |-> s.arena,
                          new_sibling |-> s.new_sibling, median |-> s.median,
                          hi_key |-> hk, hi_child |-> hc,
                          splits |-> IF s.threw THEN c.splits ELSE c.splits + 1])
                  ELSE [threw |-> FALSE, what |-> "", heap |-> h1, arena |-> c.arena,
                        new_sibling |-> NULL, median |-> 0,
                        hi_key |-> hk, hi_child |-> hc, splits |-> c.splits]))

\* BPlusTree::insert(key, value) on the tree t = [arena, heap, root].
\* Result: [threw, what, arena, heap, root, hi_key, hi_child, splits, grew],
\* grew being 1 when a new root was installed
insert(t, key, value) ==
    Bind(insert_recursive(t.heap, t.arena, t.root, key, value), LAMBDA r :
      IF r.threw \/ r.new_sibling = NULL
      THEN [threw |-> r.threw, what |-> r.what, arena |-> r.arena, heap |-> r.heap,
            root |-> t.root, hi_key |-> r.hi_key, hi_child |-> r.hi_child,
            splits |-> r.splits, grew |-> 0]
      ELSE
      Bind(NewNode(r.heap, r.arena, FALSE), LAMBDA a :
        IF a.threw
        THEN [threw |-> TRUE, what |-> a.what, arena |-> r.arena, heap |-> r.heap,
              root |-> t.root, hi_key |-> r.hi_key, hi_child |-> r.hi_child,
              splits |-> r.splits, grew |-> 0]
        ELSE
        LET new_root == [Node(FALSE) EXCEPT
                           !.keys = <<r.median>>,
                           !.children = <<t.root, r.new_sibling>>,
                           !.num_keys = 1]
        IN  [threw |-> FALSE, what |-> "", arena |-> a.arena,
             heap |-> [a.heap EXCEPT ![a.ptr] = new_root],
             root |-> a.ptr,
             hi_key |-> Max(r.hi_key, 0), hi_child |-> Max(r.hi_child, 1),
             splits |-> r.splits, grew |-> 1]))

----------------------------------------------------------------------------
(* BPlusTree: removal *)

\* mutant of RemoveIndexFrom: the descent compares as insert_recursive does,
\* key > keys[i]
RECURSIVE RemoveIndexFromLeft(_, _, _)
RemoveIndexFromLeft(node, key, i) ==
    IF i < node.num_keys /\ key > node.keys[i + 1]
    THEN RemoveIndexFromLeft(node, key, i + 1)
    ELSE i

\* the descent of remove_recursive: while (i < num_keys && key >= keys[i]) i++
RECURSIVE RemoveIndexFrom(_, _, _)
RemoveIndexFrom(node, key, i) ==
    IF i < node.num_keys /\ key >= node.keys[i + 1]
    THEN RemoveIndexFrom(node, key, i + 1)
    ELSE i

\* first k in [from, num_keys) with keys[k] == key, else num_keys
RECURSIVE FirstEqual(_, _, _)
FirstEqual(node, key, k) ==
    IF k < node.num_keys /\ node.keys[k + 1] # key
    THEN FirstEqual(node, key, k + 1)
    ELSE k

\* remove_recursive(node, key): the heap after the call
RECURSIVE remove_recursive(_, _, _)
remove_recursive(h, p, key) ==
    LET node == h[p]
        i    == RemoveIndexFrom(node, key, 0)
    IN  IF node.is_leaf
        THEN LET k == FirstEqual(node, key, 0)
             IN  IF k < node.num_keys
                 THEN [h EXCEPT ![p] = [node EXCEPT
                                          !.keys = RemoveAt(@, k),
                                          !.values = RemoveAt(@, k),
                                          !.num_keys = @ - 1]]
                 ELSE h
        ELSE remove_recursive(h, node.children[i + 1], key)

\* BPlusTree::remove(key)
remove(t, key) == [t EXCEPT !.heap = remove_recursive(t.heap, t.root, key)]

----------------------------------------------------------------------------
(* BPlusTree: point lookup.  A lookup yields [found, val]; val is NoValue  *)
(* when the key is not found (val_out is left untouched).                  *)

Hit(node, idx) == [found |-> TRUE, val |-> node.values[idx + 1]]
Miss == [found |-> FALSE, val |-> NoValue]

\* findLinear, internal node: while (i < num_keys && key >= keys[i]) i++
RECURSIVE LinearChildFrom(_, _, _)
LinearChildFrom(node, key, i) ==
    IF i < node.num_keys /\ key >= node.keys[i + 1]
    THEN LinearChildFrom(node, key, i + 1)
    ELSE i

LinearChild(node, key) == LinearChildFrom(node, key, 0)

\* findLinear, leaf: for (i = 0; i < num_keys; i++) if (keys[i] == key) ...
LinearLeaf(node, key) ==
    LET i == FirstEqual(node, key, 0)
    IN  IF i < node.num_keys THEN Hit(node, i) ELSE Miss

RECURSIVE findLinearFrom(_, _, _)
findLinearFrom(h, curr, key) ==
    IF h[curr].is_leaf
    THEN LinearLeaf(h[curr], key)
    ELSE findLinearFrom(h, h[curr].children[LinearChild(h[curr], key) + 1], key)

findLinear(t, key) == findLinearFrom(t.heap, t.root, key)

\* the binary search loop of findBinary; goRight(k) is the test that moves lo
\* (keys[mid] <= key in an internal node, keys[mid] < key in a leaf).
\* Result: [i, hi] at loop exit
RECURSIVE BinaryLoop(_, _, _, _, _, _)
BinaryLoop(node, key, strict, lo, hi, i) ==
    IF lo <= hi
    THEN LET mid == lo + (hi - lo) \div 2
             k   == node.keys[mid + 1]
         IN  IF (IF strict THEN k < key ELSE k <= key)
             THEN BinaryLoop(node, key, strict, mid + 1, hi, i)
             ELSE BinaryLoop(node, key, strict, lo, mid - 1, mid)
    ELSE [i |-> i, hi |-> hi]

\* mutant of BinaryChild: the loop compares as the leaf's loop does,
\* keys[mid] < key
BinaryChildStrict(node, key) ==
    LET r == BinaryLoop(node, key, TRUE, 0, node.num_keys - 1, node.num_keys - 1)
    IN  IF r.i = r.hi
        THEN IF node.keys[r.i + 1] > key THEN r.i ELSE r.i + 1
        ELSE r.i

\* findBinary, internal node: the index of the child descended into
BinaryChild(node, key) ==
    LET r == BinaryLoop(node, key, FALSE, 0, node.num_keys - 1, node.num_keys - 1)
    IN  IF r.i = r.hi
        THEN IF node.keys[r.i + 1] > key THEN r.i ELSE r.i + 1
        ELSE r.i

\* findBinary, leaf
BinaryLeaf(node, key) ==
    LET r == BinaryLoop(node, key, TRUE, 0, node.num_keys - 1, node.num_keys - 1)
    IN  IF r.i >= 0 /\ r.i < node.num_keys /\ node.keys[r.i + 1] = key
        THEN Hit(node, r.i)
        ELSE Miss

RECURSIVE findBinaryFrom(_, _, _)
findBinaryFrom(h, curr, key) ==
    IF h[curr].is_leaf
    THEN BinaryLeaf(h[curr], key)
    ELSE findBinaryFrom(h, h[curr].children[BinaryChild(h[curr], key) + 1], key)

findBinary(t, key) == findBinaryFrom(t.heap, t.root, key)

\* What _mm256_loadu_si256(&keys[i]) delivers in lane b: the key when the
\* slot is in use, else whatever the memory holds there (junk[b]): a stale
\* or never written key slot, or bytes of the union behind keys[M].
Lane(node, junk, i, b) ==
    IF i + b < node.num_keys THEN node.keys[i + b + 1] ELSE junk[b]

MinOf(S) == CHOOSE x \in S : \A y \in S : x <= y

\* mutant of SIMDChildFrom: found_idx is taken without the test against
\* num_keys
RECURSIVE SIMDChildFromUnchecked(_, _, _, _)
SIMDChildFromUnchecked(node, key, junk, i) ==
    IF i < node.num_keys
    THEN LET mask == {b \in 0 .. Lanes - 1 : Lane(node, junk, i, b) > key}
         IN  IF mask # {}
             THEN i + MinOf(mask)
             ELSE SIMDChildFromUnchecked(node, key, junk, i + Lanes)
    ELSE node.num_keys

\* findSIMD, internal node: the chunk loop from chunk base i
RECURSIVE SIMDChildFrom(_, _, _, _)
SIMDChildFrom(node, key, junk, i) ==
    IF i < node.num_keys
    THEN LET mask == {b \in 0 .. Lanes - 1 : Lane(node, junk, i, b) > key}
         IN  IF mask # {} /\ i + MinOf(mask) < node.num_keys
             THEN i + MinOf(mask)
             ELSE SIMDChildFrom(node, key, junk, i + Lanes)
    ELSE node.num_keys

SIMDChild(node, key, junk) == SIMDChildFrom(node, key, junk, 0)

\* findSIMD, leaf: the chunk loop from chunk base i
RECURSIVE SIMDLeafFrom(_, _, _, _)
SIMDLeafFrom(node, key, junk, i) ==
    IF i < node.num_keys
    THEN LET mask == {b \in 0 .. Lanes - 1 : Lane(node, junk, i, b) = key}
         IN  IF mask # {} /\ i + MinOf(mask) < node.num_keys
             THEN Hit(node, i + MinOf(mask))
             ELSE SIMDLeafFrom(node, key, junk, i + Lanes)
    ELSE Miss

SIMDLeaf(node, key, junk) == SIMDLeafFrom(node, key, junk, 0)

RECURSIVE findSIMDFrom(_, _, _, _)
findSIMDFrom(h, curr, key, junk) ==
    IF h[curr].is_leaf
    THEN SIMDLeaf(h[curr], key, junk)
    ELSE findSIMDFrom(h, h[curr].children[SIMDChild(h[curr], key, junk) + 1],
                      key, junk)

findSIMD(t, key, junk) == findSIMDFrom(t.heap, t.root, key, junk)

----------------------------------------------------------------------------
(* The tree as one value, and the trees the specification starts from *)

Tree == [arena |-> arena, heap |-> heap, root |-> root]

EmptyHeap == [p \in {} |-> Node(TRUE)]

\* BPlusTree::BPlusTree(): root = new Node(true), in a fresh arena
NewTree(ar) ==
    Bind(NewNode(EmptyHeap, ar, TRUE), LAMBDA a :
      [arena |-> a.arena, heap |-> a.heap, root |-> a.ptr,
       threw |-> a.threw, what |-> a.what])

\* the value the benchmark's driver stores under a key: insert(k, k * 10)
DriverValue(k) == k * 10

\* the tree after tree.insert(ks[1], ..), .., tree.insert(ks[Len(ks)], ..)
RECURSIVE InsertAll(_, _)
InsertAll(t, ks) ==
    IF ks = <<>>
    THEN t
    ELSE Bind(insert(t, Head(ks), DriverValue(Head(ks))), LAMBDA r :
           Bind([arena |-> r.arena, heap |-> r.heap, root |-> r.root], LAMBDA t1 :
             InsertAll(t1, Tail(ks))))

\* Key sequences inserted before the modelled calls begin: none; a leaf one
\* short of its first split; a root over two leaves; a root one key short of
\* the first internal split.
SeedRuns == {<<>>, <<3, 1, 2>>, <<2, 1, 3, 4>>, <<11, 10, 9, 8, 7, 6, 5, 4, 3>>}
SeedKeys == UNION {{ks[j] : j \in 1 .. Len(ks)} : ks \in SeedRuns}

\* addresses malloc may return for the arena's buffer (16-byte aligned)
MallocBases == {0, 16, 48, 64}
\* of these, the one the tree's arena got
TreeArenaBases == {16}

\* the keys looked up when a property speaks of every key
ProbeKeys == Keys \cup SeedKeys \cup {0}

\* contents of the vector lanes behind num_keys
JunkValues == 0 .. MaxKey + 1
Junks == {[b \in 0 .. Lanes - 1 |-> g] : g \in JunkValues}
         \cup {[b \in 0 .. Lanes - 1 |-> IF b % 2 = 0 THEN 0 ELSE MaxKey + 1],
               [b \in 0 .. Lanes - 1 |-> b]}
\* the lanes a call may meet: all below every key, all equal to the key
\* looked up, all above every key
CallJunks(key) == {[b \in 0 .. Lanes - 1 |-> g] : g \in {0, key, MaxKey + 1}}

----------------------------------------------------------------------------
(* Specification of the tree *)

\* the record of the last call: its name, arguments and outcome
Call(op, key, value, ok, hk, hc) ==
    [op |-> op, key |-> key, value |-> value, ok |-> ok,
     hi_key |-> hk, hi_child |-> hc, what |-> "", splits |-> 0, grew |-> 0]

\* the blocks the arena handed out for the nodes of h, in the order handed
\* out: operator new asks for sizeof(Node) each time
NodeBlocks(ar, h) ==
    [j \in 1 .. Cardinality(DOMAIN h) |->
       [ptr |-> ar.memory + (j - 1) * AlignedBytes(SizeofNode),
        bytes |-> SizeofNode]]

Init ==
    \E base \in TreeArenaBases, ks \in SeedRuns :
       \E t \in {InsertAll(NewTree(ArenaNew(base, ARENA_SIZE)), ks)} :
           /\ arena = t.arena
           /\ heap = t.heap
           /\ root = t.root
           /\ last = Call("new", 0, 0, TRUE, -1, -1)
           /\ nops = 0
           /\ poisoned = FALSE
           /\ blocks = NodeBlocks(t.arena, t.heap)

\* tree.insert(key, value); an allocation failure leaves the tree as the
\* exception found it, and the caller gives the tree up
DoInsert(key, value) ==
    /\ ~poisoned
    /\ \E r \in {insert(Tree, key, value)} :
           /\ arena' = r.arena
           /\ heap' = r.heap
           /\ root' = r.root
           /\ poisoned' = r.threw
           /\ last' = [Call("insert", key, value, ~r.threw, r.hi_key, r.hi_child)
                         EXCEPT !.what = r.what, !.splits = r.splits,
                                !.grew = r.grew]
           /\ blocks' = NodeBlocks(r.arena, r.heap)
    /\ nops' = nops + 1

Insert(key, value) ==
    /\ nops < MaxOps
    /\ DoInsert(key, value)

\* tree.remove(key)
Remove(key) ==
    /\ ~poisoned
    /\ nops < MaxOps
    /\ heap' = remove(Tree, key).heap
    /\ last' = Call("remove", key, 0, TRUE, -1, -1)
    /\ nops' = nops + 1
    /\ UNCHANGED <<arena, root, poisoned, blocks>>

\* tree.findLinear(key, val_out)
FindLinear(key) ==
    /\ LET r == findLinear(Tree, key)
       IN  last' = Call("findLinear", key, r.val, r.found, -1, -1)
    /\ UNCHANGED <<arena, heap, root, nops, poisoned, blocks>>

\* tree.findBinary(key, val_out)
FindBinary(key) ==
    /\ LET r == findBinary(Tree, key)
       IN  last' = Call("findBinary", key, r.val, r.found, -1, -1)
    /\ UNCHANGED <<arena, heap, root, nops, poisoned, blocks>>

\* tree.findSIMD(key, val_out)
FindSIMD(key) ==
    /\ \E junk \in CallJunks(key) :
         LET r == findSIMD(Tree, key, junk)
         IN  last' = Call("findSIMD", key, r.val, r.found, -1, -1)
    /\ UNCHANGED <<arena, heap, root, nops, poisoned, blocks>>

Next ==
    \/ \E k \in Keys, v \in Values : Insert(k, v)
    \/ \E k \in Keys : Remove(k)
    \/ \E k \in Keys : FindLinear(k)
    \/ \E k \in Keys : FindBinary(k)
    \/ \E k \in Keys : FindSIMD(k)

Spec == Init /\ [][Next]_vars

\* the tree grown by insert alone: no remove
NextInsert ==
    \/ \E k \in Keys, v \in Values : Insert(k, v)
    \/ \E k \in Keys : FindLinear(k)
    \/ \E k \in Keys : FindBinary(k)
    \/ \E k \in Keys : FindSIMD(k)

InsertSpec == Init /\ [][NextInsert]_vars

----------------------------------------------------------------------------
(* Specification of the tree in an arena sized tightly: room for the nodes *)
(* of the initial tree and for at most MaxSpare more, so that allocate     *)
(* fails within an insert                                                  *)

TightInit ==
    \E base \in TreeArenaBases, ks \in SeedRuns, spare \in 0 .. MaxSpare :
       \E t0 \in {InsertAll(NewTree(ArenaNew(base, ARENA_SIZE)), ks)} :
         \E t \in {InsertAll(NewTree(ArenaNew(base,
                        get_used_memory(t0.arena) + spare * SizeofNode)), ks)} :
           /\ arena = t.arena
           /\ heap = t.heap
           /\ root = t.root
           /\ last = Call("new", 0, 0, TRUE, -1, -1)
           /\ nops = 0
           /\ poisoned = FALSE
           /\ blocks = NodeBlocks(t.arena, t.heap)

TightSpec == TightInit /\ [][Next]_vars

----------------------------------------------------------------------------
(* Specification of a new tree filled with pairwise distinct keys: any M   *)
(* of FreshKeys in any order, and the ascending run 1, 2, .., MaxRun       *)

FreshKeys == (1 .. MaxRun) \cup {20}

FreshInit ==
    \E base \in TreeArenaBases :
       \E t \in {NewTree(ArenaNew(base, ARENA_SIZE))} :
           /\ arena = t.arena
           /\ heap = t.heap
           /\ root = t.root
           /\ last = Call("new", 0, 0, TRUE, -1, -1)
           /\ nops = 0
           /\ poisoned = FALSE
           /\ blocks = NodeBlocks(t.arena, t.heap)

\* tree.insert(key, key * 10) of a key not inserted before
InsertFresh(key) ==
    /\ \A p \in DOMAIN heap :
         \A j \in 1 .. heap[p].num_keys : heap[p].is_leaf => heap[p].keys[j] # key
    /\ \/ nops < M
       \/ /\ nops < MaxRun
          /\ key = nops + 1
          /\ \A k \in 1 .. nops : findLinear(Tree, k).found
    /\ DoInsert(key, DriverValue(key))

FreshNext == \E key \in FreshKeys : InsertFresh(key)

FreshSpec == FreshInit /\ [][FreshNext]_vars

----------------------------------------------------------------------------
(* Specification of findSIMD's two scans on one node of a tree with a      *)
(* fan-out above the vector width (the default M = 256): up to MaxSlots    *)
(* keys in use, in ascending order, repeats included                       *)

\* the key sequences a node may hold in slots [0, n): ascending from lo on
RECURSIVE NodeKeySeqs(_, _)
NodeKeySeqs(n, lo) ==
    IF n = 0
    THEN {<<>>}
    ELSE UNION {{<<k>> \o t : t \in NodeKeySeqs(n - 1, k)} : k \in lo .. MaxKey}

\* lanes behind num_keys as they matter to a search for key: each lane
\* either equal to the key or above it, independently
NodeJunks(key) == [0 .. Lanes - 1 -> {key, key + 1}]

\* of these, the lanes a call meets: all equal to the key, all above it, or
\* the two in turn
NodeCallJunks(key) ==
    {[b \in 0 .. Lanes - 1 |-> key], [b \in 0 .. Lanes - 1 |-> key + 1],
     [b \in 0 .. Lanes - 1 |-> key + (b % 2)]}

\* keys searched for: every key a node holds, one below and one above
NodeProbes == 0 .. MaxKey + 1

\* the node lies at address 0; values[j] and children[j] name their slot
NodeInit ==
    \E n \in 0 .. MaxSlots, leaf \in BOOLEAN :
       \E ks \in NodeKeySeqs(n, 1) :
           /\ leaf \/ n >= 1
           /\ heap = (0 :> [is_leaf |-> leaf, num_keys |-> n, keys |-> ks,
                            values |-> IF leaf THEN [j \in 1 .. n |-> 100 + j]
                                       ELSE <<>>,
                            children |-> IF leaf THEN <<>>
                                         ELSE [j \in 1 .. n + 1 |-> 100 + j]])
           /\ root = 0
           /\ arena = NoArena
           /\ last = Call("new", 0, 0, TRUE, -1, -1)
           /\ nops = 0
           /\ poisoned = FALSE
           /\ blocks = <<>>

\* the leaf scan of findSIMD on the node
ScanLeaf(key) ==
    /\ heap[root].is_leaf
    /\ \E junk \in NodeCallJunks(key) :
         LET r == SIMDLeaf(heap[root], key, junk)
         IN  last' = Call("SIMDLeaf", key, r.val, r.found, -1, -1)
    /\ UNCHANGED <<arena, heap, root, nops, poisoned, blocks>>

\* the descent step of findSIMD on the node: last.value is result_index
ScanInternal(key) ==
    /\ ~heap[root].is_leaf
    /\ \E junk \in NodeCallJunks(key) :
         last' = Call("SIMDChild", key, SIMDChild(heap[root], key, junk),
                      TRUE, -1, -1)
    /\ UNCHANGED <<arena, heap, root, nops, poisoned, blocks>>

NodeNext ==
    \/ \E key \in NodeProbes : ScanLeaf(key)
    \/ \E key \in NodeProbes : ScanInternal(key)

NodeSpec == NodeInit /\ [][NodeNext]_vars

----------------------------------------------------------------------------
(* Specification of the life of global_arena and one tree: the program     *)
(* starts with global_arena == nullptr and no tree                         *)

\* sizes the program may build the arena with: none at all, or ARENA_SIZE
LifeCapacities == {0, ARENA_SIZE}

LifeInit ==
    /\ arena = NoArena
    /\ heap = EmptyHeap
    /\ root = NULL
    /\ last = Call("start", 0, 0, TRUE, -1, -1)
    /\ nops = 0
    /\ poisoned = FALSE
    /\ blocks = <<>>

\* global_arena = new Arena(size)
NewArena(base, size) ==
    /\ arena = NoArena
    /\ arena' = ArenaNew(base, size)
    /\ last' = Call("Arena", size, base, TRUE, -1, -1)
    /\ UNCHANGED <<heap, root, nops, poisoned, blocks>>

\* BPlusTree<int, int, M> tree: the constructor; when operator new throws,
\* no tree comes to be
Construct ==
    /\ root = NULL
    /\ \E t \in {NewTree(arena)} :
         /\ arena' = t.arena
         /\ heap' = t.heap
         /\ root' = t.root
         /\ last' = [Call("new", 0, 0, ~t.threw, -1, -1) EXCEPT !.what = t.what]
         /\ blocks' = NodeBlocks(t.arena, t.heap)
    /\ UNCHANGED <<nops, poisoned>>

LifeNext ==
    \/ \E base \in TreeArenaBases, size \in LifeCapacities : NewArena(base, size)
    \/ Construct
    \/ \E k \in Keys, v \in Values : root # NULL /\ Insert(k, v)
    \/ \E k \in Keys : root # NULL /\ Remove(k)
    \/ \E k \in Keys : root # NULL /\ FindLinear(k)
    \/ \E k \in Keys : root # NULL /\ FindBinary(k)
    \/ \E k \in Keys : root # NULL /\ FindSIMD(k)

LifeSpec == LifeInit /\ [][LifeNext]_vars

----------------------------------------------------------------------------
(* Specification of the arena on its own: any caller, any request *)

\* sizes the arena is built with, and sizes asked of allocate (size_t values)
ArenaCapacities == {0, 100, 3 * CacheLine}
AllocSizes ==
    {0, 1, CacheLine - 1, CacheLine, CacheLine + 1, 2 * CacheLine,
     SizeMod - CacheLine, SizeMod - CacheLine + 1, SizeMod - 1}

ArenaInit ==
    \E base \in MallocBases, size \in ArenaCapacities :
       /\ arena = ArenaNew(base, size)
       /\ heap = EmptyHeap
       /\ root = NULL
       /\ last = Call("new", 0, 0, TRUE, -1, -1)
       /\ nops = 0
       /\ poisoned = FALSE
       /\ blocks = <<>>

\* arena.allocate(bytes): last.key is the request, last.value the pointer;
\* blocks lists what was handed out since the last reset
Allocate(bytes) ==
    /\ nops < MaxCalls
    /\ \E r \in {ArenaAllocate(arena, bytes)} :
         /\ arena' = r.arena
         /\ last' = Call("allocate", bytes, r.ptr, ~r.threw, -1, -1)
         /\ blocks' = IF r.threw
                      THEN blocks
                      ELSE Append(blocks, [ptr |-> r.ptr, bytes |-> bytes])
    /\ nops' = nops + 1
    /\ UNCHANGED <<heap, root, poisoned>>

\* arena.reset(): every block handed out is given up
Reset ==
    /\ arena' = ArenaReset(arena)
    /\ last' = Call("reset", 0, 0, TRUE, -1, -1)
    /\ blocks' = <<>>
    /\ UNCHANGED <<heap, root, nops, poisoned>>

ArenaNext ==
    \/ \E bytes \in AllocSizes : Allocate(bytes)
    \/ Reset

ArenaSpec == ArenaInit /\ [][ArenaNext]_vars

----------------------------------------------------------------------------
(* What the properties speak of *)

\* the addresses of the nodes of the subtree at p
RECURSIVE NodesOf(_, _)
NodesOf(h, p) ==
    IF h[p].is_leaf
    THEN {p}
    ELSE {p} \cup UNION {NodesOf(h, h[p].children[j]) : j \in 1 .. h[p].num_keys + 1}

TreeNodes == NodesOf(heap, root)
Leaves == {p \in TreeNodes : heap[p].is_leaf}
Internals == {p \in TreeNodes : ~heap[p].is_leaf}

\* the leaf slots in use, <<leaf, index>>, and the keys stored in a subtree
LeafSlots(h, r) ==
    {<<p, i>> \in NodesOf(h, r) \X (0 .. M) : h[p].is_leaf /\ i < h[p].num_keys}
SlotsOf(k) == {s \in LeafSlots(heap, root) : heap[s[1]].keys[s[2] + 1] = k}
KeysIn(h, p) ==
    {h[q].keys[i + 1] : <<q, i>> \in LeafSlots(h, p)}

\* the lengths of the root-to-leaf paths below p (edges)
RECURSIVE Depths(_, _)
Depths(h, p) ==
    IF h[p].is_leaf
    THEN {0}
    ELSE UNION {{d + 1 : d \in Depths(h, h[p].children[j])} :
                  j \in 1 .. h[p].num_keys + 1}

\* the descent rule: the smallest i with key < keys[i], else num_keys
DescentIndex(node, key) ==
    MinOf({i \in 0 .. node.num_keys :
             i = node.num_keys \/ key < node.keys[i + 1]})

Found(v) == [found |-> TRUE, val |-> v]

\* all three lookups of key in t return r, whatever lies behind num_keys
AllFind(t, key, r) ==
    /\ findLinear(t, key) = r
    /\ findBinary(t, key) = r
    /\ \A junk \in Junks : findSIMD(t, key, junk) = r

InsertDone == last.op = "insert" /\ last.ok

----------------------------------------------------------------------------
(* Claims *)

\* C1 (overwrite law): when insert(k, v1) is followed immediately by
\* insert(k, v2), both successful, on a tree grown by inserts alone, then
\* findLinear(k), findBinary(k) and findSIMD(k) each return (true, v2).
C1_Overwrite ==
    [][(/\ last.op = "insert" /\ last.ok
        /\ last'.op = "insert" /\ last'.ok
        /\ last'.key = last.key)
       => AllFind(Tree', last'.key, Found(last'.value))]_vars

\* C2 (upsert uniqueness): after any sequence of successful inserts, for
\* every key at most one leaf slot of the tree carries it.
C2_UpsertUniqueness ==
    ~poisoned => \A k \in ProbeKeys : Cardinality(SlotsOf(k)) <= 1

\* C3 (insert-then-find): immediately after a successful insert(k, v), on a
\* tree reached by inserts and removes, all three lookups of k return
\* (true, v).
C3_InsertThenFind ==
    InsertDone => AllFind(Tree, last.key, Found(last.value))

\* C4 (lookup equivalence): on every tree reached by successful inserts and
\* removes and for every key, findLinear, findBinary and findSIMD return the
\* same found flag and value, and at every internal node all three choose
\* the child given by the descent rule.
C4_LookupEquivalence ==
    ~poisoned =>
      /\ \A k \in ProbeKeys : \A r \in {findLinear(Tree, k)} :
           /\ findBinary(Tree, k) = r
           /\ \A junk \in Junks : findSIMD(Tree, k, junk) = r
      /\ \A p \in Internals : \A k \in ProbeKeys :
           \A i \in {DescentIndex(heap[p], k)} :
             /\ LinearChild(heap[p], k) = i
             /\ BinaryChild(heap[p], k) = i
             /\ \A junk \in Junks : SIMDChild(heap[p], k, junk) = i

\* C4 witness: a lookup ran on a tree with an internal root, a leaf emptied
\* by removal and a leaf whose lanes behind num_keys are in play
C4_Witness ==
    /\ last.op = "findSIMD"
    /\ ~heap[root].is_leaf
    /\ \E p \in Leaves : heap[p].num_keys = 0
    /\ \E p \in Leaves : heap[p].num_keys > 0

\* C5 (persistence of other keys): a successful insert(k, v) on a tree grown
\* by inserts alone leaves the result of every lookup of every key j # k as
\* it was.
C5_Persistence ==
    [][(last'.op = "insert" /\ last'.ok)
       => \A j \in ProbeKeys \ {last'.key} :
            AllFind(Tree', j, findLinear(Tree, j))]_vars

\* C6 (balance): every root-to-leaf path has the same length; the depth
\* changes only when a root split installs a new root, and then it grows by
\* exactly one.
Depth == MinOf(Depths(heap, root))
Balanced == Cardinality(Depths(heap, root)) = 1
C6_Balance ==
    /\ Balanced
    /\ [][~poisoned' =>
            /\ Balanced'
            /\ root' = root => Depth' = Depth
            /\ root' # root =>
                 /\ last'.op = "insert"
                 /\ Depth' = Depth + 1
                 /\ heap'[root'].children[1] = root]_vars

\* C6 witness: an insert split an internal root and the tree is two levels deep
C6_Witness ==
    /\ InsertDone
    /\ Depths(heap, root) = {2}
    /\ nops > 0

\* C7 (separators): after any sequence of successful inserts, for every
\* internal node and every i in [0, num_keys):
\* max(keys in children[i]) < keys[i] <= min(keys in children[i+1]).
C7_Separators ==
    ~poisoned =>
      \A p \in Internals : \A i \in 0 .. heap[p].num_keys - 1 :
        /\ \A k \in KeysIn(heap, heap[p].children[i + 1]) : k < heap[p].keys[i + 1]
        /\ \A k \in KeysIn(heap, heap[p].children[i + 2]) : heap[p].keys[i + 1] <= k

\* C8 (ordering): after any sequence of successful inserts and removes, the
\* keys in slots [0, num_keys) of every node are strictly ascending.
C8_Ordering ==
    ~poisoned =>
      \A p \in TreeNodes : \A i \in 0 .. heap[p].num_keys - 2 :
        heap[p].keys[i + 1] < heap[p].keys[i + 2]

\* C9 (capacity): every node has 0 <= num_keys <= M, no insert writes a key
\* or value slot at index >= M or a child slot at index > M, and after every
\* completed insert (hence between calls) every node has num_keys < M.
C9_Capacity ==
    ~poisoned =>
      /\ \A p \in DOMAIN heap :
           /\ 0 <= heap[p].num_keys /\ heap[p].num_keys < M
           /\ Len(heap[p].keys) = heap[p].num_keys
           /\ heap[p].is_leaf => Len(heap[p].values) = heap[p].num_keys
           /\ ~heap[p].is_leaf => Len(heap[p].children) = heap[p].num_keys + 1
      /\ last.hi_key < M
      /\ last.hi_child <= M

\* C9 witness: an insert filled a leaf and an internal node to M keys and
\* split both (the root grew over an internal node)
C9_Witness ==
    /\ InsertDone
    /\ last.hi_key = M - 1
    /\ last.hi_child = M
    /\ ~heap[root].is_leaf /\ ~heap[heap[root].children[1]].is_leaf

\* C10 (Arena::allocate): allocate(bytes) rounds bytes up to the next
\* multiple of 64; if offset + rounded > capacity it fails and leaves the
\* arena as it was; otherwise it returns memory + (offset before the call)
\* and advances offset by exactly the rounded amount.
C10_Allocate ==
    [][last'.op = "allocate" =>
         LET rounded == RoundUp(last'.key, CacheLine)
         IN  IF arena.offset + rounded > arena.capacity
             THEN ~last'.ok /\ arena' = arena
             ELSE /\ last'.ok
                  /\ last'.value = arena.memory + arena.offset
                  /\ arena' = [arena EXCEPT !.offset = @ + rounded]]_vars

\* the bytes of block b: [b.ptr, b.ptr + b.bytes)
BlockWithin(b, ar) ==
    b.bytes = 0 \/ (ar.memory <= b.ptr /\ b.ptr + b.bytes <= ar.memory + ar.capacity)
BlocksDisjoint(b, c) ==
    b.bytes = 0 \/ c.bytes = 0 \/ b.ptr + b.bytes <= c.ptr \/ c.ptr + c.bytes <= b.ptr

\* C11 (arena invariant): after any sequence of allocate and reset calls,
\* 0 <= offset <= capacity; offset never decreases except in reset, which
\* sets it to 0 and leaves capacity as it is; every block handed out lies
\* within [base, base + capacity), and the blocks handed out between two
\* resets are pairwise disjoint.
C11_ArenaInvariant ==
    /\ 0 <= arena.offset /\ arena.offset <= arena.capacity
    /\ \A j \in 1 .. Len(blocks) : BlockWithin(blocks[j], arena)
    /\ \A j \in 1 .. Len(blocks) : \A k \in j + 1 .. Len(blocks) :
         BlocksDisjoint(blocks[j], blocks[k])
    /\ [][/\ arena'.capacity = arena.capacity
          /\ arena'.memory = arena.memory
          /\ IF last'.op = "reset"
             THEN arena'.offset = 0
             ELSE arena'.offset >= arena.offset]_vars

\* C12 (alignment): every address Arena::allocate returns is a multiple of
\* 64, whatever address malloc gave the constructor for the buffer, so that
\* every node begins on a cache line.
C12_Alignment ==
    /\ \A j \in 1 .. Len(blocks) : blocks[j].ptr % CacheLine = 0
    /\ \A p \in DOMAIN heap : p % CacheLine = 0

\* C13 (arena accounting): on a tree grown from a fresh arena, used() is S
\* times the number of nodes created, S being the node size rounded up to a
\* multiple of 64; a successful insert creates one node per leaf split, per
\* internal split and per root growth and none besides; used() never exceeds
\* capacity(); find and remove leave used() as it is.
NodesCreated == Cardinality(DOMAIN heap)
C13_Accounting ==
    /\ ~poisoned =>
         get_used_memory(arena) = RoundUp(SizeofNode, CacheLine) * NodesCreated
    /\ get_used_memory(arena) <= get_capacity(arena)
    /\ [][/\ (last'.op = "insert" /\ last'.ok) =>
               /\ NodesCreated' = NodesCreated + last'.splits + last'.grew
               /\ get_used_memory(arena') =
                    get_used_memory(arena)
                    + RoundUp(SizeofNode, CacheLine) * (last'.splits + last'.grew)
          /\ last'.op \in {"remove", "findLinear", "findBinary", "findSIMD"} =>
               get_used_memory(arena') = get_used_memory(arena)]_vars

\* C13 witness: one insert split a leaf and an internal node and grew the
\* root, three nodes created
C13_Witness ==
    /\ InsertDone
    /\ last.splits = 2 /\ last.grew = 1
    /\ get_used_memory(arena) = RoundUp(SizeofNode, CacheLine) * NodesCreated

\* the leaf the lookup descent rule reaches for key from p
RECURSIVE LookupLeaf(_, _, _)
LookupLeaf(h, p, key) ==
    IF h[p].is_leaf
    THEN p
    ELSE LookupLeaf(h, h[p].children[DescentIndex(h[p], key) + 1], key)

\* C14 (remove is a best-effort leaf erase): remove(k) changes at most the
\* leaf the lookup descent reaches for k; if that leaf holds k, exactly one
\* entry with key k goes, the later entries move left by one and num_keys
\* drops by one, otherwise nothing changes.  No other node, no separator or
\* child reference, not the root, the depth or the arena changes; a leaf may
\* be left empty and still reachable.
C14_RemoveFrame ==
    [][last'.op = "remove" =>
         LET k    == last'.key
             p    == LookupLeaf(heap, root, k)
             node == heap[p]
             hit  == {i \in 0 .. node.num_keys - 1 : node.keys[i + 1] = k}
         IN  /\ DOMAIN heap' = DOMAIN heap
             /\ \A q \in DOMAIN heap \ {p} : heap'[q] = heap[q]
             /\ root' = root
             /\ arena' = arena
             /\ Depths(heap', root') = Depths(heap, root)
             /\ NodesOf(heap', root') = NodesOf(heap, root)
             /\ IF hit = {}
                THEN heap'[p] = node
                ELSE \E i \in hit :
                       heap'[p] = [node EXCEPT !.keys = RemoveAt(@, i),
                                               !.values = RemoveAt(@, i),
                                               !.num_keys = @ - 1]]_vars

\* C14 witness: a remove took the last entry of a leaf below an internal
\* root; the empty leaf is still in the tree
C14_Witness ==
    /\ last.op = "remove"
    /\ ~heap[root].is_leaf
    /\ \E p \in Leaves : heap[p].num_keys = 0 /\ p = LookupLeaf(heap, root, last.key)

\* C15 (split boundary), as the claim has it: in a new tree the first insert
\* gives a single leaf with one entry; M - 1 distinct inserts split nothing
\* and allocate nothing; the M-th distinct insert makes exactly one split and
\* leaves a tree of exactly two nodes.
C15_TwoNodes ==
    /\ nops = 1 => heap[root].is_leaf /\ heap[root].num_keys = 1
    /\ nops < M => /\ heap[root].is_leaf /\ heap[root].num_keys = nops
                   /\ DOMAIN heap = {root}
                   /\ last.splits = 0 /\ last.grew = 0
    /\ nops = M => last.splits = 1 /\ Cardinality(TreeNodes) = 2

\* C15, amended: the same, but the M-th distinct insert makes exactly one
\* split and grows the root, leaving exactly three nodes: an internal root
\* with one key over the two leaves.
C15_SplitBoundary ==
    /\ nops = 1 => heap[root].is_leaf /\ heap[root].num_keys = 1
    /\ nops < M => /\ heap[root].is_leaf /\ heap[root].num_keys = nops
                   /\ DOMAIN heap = {root}
                   /\ last.splits = 0 /\ last.grew = 0
    /\ nops = M => /\ last.splits = 1 /\ last.grew = 1
                   /\ Cardinality(TreeNodes) = 3 /\ DOMAIN heap = TreeNodes
                   /\ ~heap[root].is_leaf /\ heap[root].num_keys = 1
                   /\ \A j \in 1 .. 2 : heap[heap[root].children[j]].is_leaf

\* C15 witness: the M-th distinct insert into a new tree has been made
C15_Witness == nops = M /\ InsertDone /\ last.splits = 1

\* C16 (scenario, M = 4): after the keys 1, 2, .., 10 have been inserted in
\* ascending order into a new tree, the tree has depth 2 (root, internal
\* node, leaf on every path), and findLinear, findBinary and findSIMD each
\* return true with the inserted value for every key 1..10.
C16_AscendingTen ==
    (M = 4 /\ nops = 10) =>
      /\ Depths(heap, root) = {2}
      /\ \A k \in 1 .. 10 : AllFind(Tree, k, Found(DriverValue(k)))

\* C16 witness: the tenth key of the ascending run has been inserted
C16_Witness ==
    /\ M = 4 /\ nops = 10 /\ InsertDone /\ last.key = 10
    /\ Cardinality(Internals) = 3 /\ Cardinality(Leaves) = 5

\* C17 (slots behind num_keys): what findSIMD finds in a node does not
\* depend on the slots at index >= num_keys.  Whatever those lanes hold, the
\* leaf scan returns what the scan of slots [0, num_keys) returns (as
\* findLinear and findBinary do): a tail lane equal to the key is no hit;
\* and the descent picks the child of the descent rule: a tail lane above
\* the key selects nothing.
C17_TailLanes ==
    /\ last.op = "SIMDLeaf" =>
         \A r \in {LinearLeaf(heap[root], last.key)} :
           /\ last.ok = r.found /\ last.value = r.val
           /\ BinaryLeaf(heap[root], last.key) = r
           /\ \A junk \in NodeJunks(last.key) :
                SIMDLeaf(heap[root], last.key, junk) = r
    /\ last.op = "SIMDChild" =>
         \A i \in {DescentIndex(heap[root], last.key)} :
           /\ last.value = i
           /\ LinearChild(heap[root], last.key) = i
           /\ BinaryChild(heap[root], last.key) = i
           /\ \A junk \in NodeJunks(last.key) :
                SIMDChild(heap[root], last.key, junk) = i

\* C17 witness: a leaf with more keys than one vector and a last chunk that
\* is mostly tail was scanned for a key it does not hold
C17_Witness ==
    /\ last.op = "SIMDLeaf" /\ ~last.ok
    /\ heap[root].num_keys > Lanes /\ heap[root].num_keys % Lanes # 0
    /\ last.key \in Keys

\* C18 (no active arena): while global_arena is null, constructing a tree
\* fails with ArenaUnavailable: no node comes to be and the arena state is
\* as before; and once a tree is constructed, its root reference is non-null
\* (and names a node) in every later state.
C18_ArenaUnavailable ==
    [][/\ (last'.op = "new" /\ arena = NoArena) =>
            /\ ~last'.ok /\ last'.what = ArenaUnavailable
            /\ root' = NULL /\ heap' = heap /\ arena' = arena /\ blocks' = blocks
       /\ root # NULL => (root' # NULL /\ root' \in DOMAIN heap')
       /\ (last'.op = "new" /\ last'.ok) => (root' # NULL /\ root' \in DOMAIN heap')]_vars

\* C18 witness: a tree was constructed while no arena was active, and the
\* construction failed
C18_Witness ==
    /\ last.op = "new" /\ ~last.ok /\ last.what = ArenaUnavailable
    /\ arena = NoArena /\ root = NULL /\ heap = EmptyHeap

\* C19 (insert descends as lookup does): at every internal node of every
\* tree reached and for every key, a separator's own value included, the
\* index insert_recursive descends into is the one the lookup descent rule
\* selects; so a key just inserted lies in the leaf that find and remove
\* search for it.
C19_InsertDescent ==
    ~poisoned =>
      /\ \A p \in Internals : \A k \in ProbeKeys :
           InsertIndex(heap[p], k) = DescentIndex(heap[p], k)
      /\ InsertDone =>
           \E j \in 1 .. heap[LookupLeaf(heap, root, last.key)].num_keys :
              /\ heap[LookupLeaf(heap, root, last.key)].keys[j] = last.key
              /\ heap[LookupLeaf(heap, root, last.key)].values[j] = last.value

\* the leaf insert_recursive reaches for key from p
RECURSIVE InsertLeaf(_, _, _)
InsertLeaf(h, p, key) ==
    IF h[p].is_leaf
    THEN p
    ELSE InsertLeaf(h, h[p].children[InsertIndex(h[p], key) + 1], key)

\* the number of separator slots of the tree at r that hold k
SepCount(h, r, k) ==
    Cardinality({<<p, i>> \in NodesOf(h, r) \X (0 .. M) :
                   ~h[p].is_leaf /\ i < h[p].num_keys /\ h[p].keys[i + 1] = k})

\* C20 (leaf split, copy-up): when an insert brings its leaf to num_keys = M,
\* the old leaf keeps exactly the first floor(M/2) entries, the one new leaf
\* gets the other M - floor(M/2) in the same order from index 0, no pair is
\* lost or doubled, and the separator handed up is the new leaf's keys[0],
\* which stays in the new leaf.  With M = 4 and inserts 10, 20, 5, 6: root
\* [10] over leaves [5, 6] and [10, 20]; find(6) and find(10) are true,
\* find(7) is false.
C20_LeafSplit ==
    /\ (M = 4 /\ nops = 4 /\ KeysIn(heap, root) = {5, 6, 10, 20}) =>
         /\ ~heap[root].is_leaf /\ heap[root].keys = <<10>>
         /\ heap[heap[root].children[1]].keys = <<5, 6>>
         /\ heap[heap[root].children[1]].values = <<50, 60>>
         /\ heap[heap[root].children[2]].keys = <<10, 20>>
         /\ heap[heap[root].children[2]].values = <<100, 200>>
         /\ AllFind(Tree, 6, Found(60))
         /\ AllFind(Tree, 10, Found(100))
         /\ AllFind(Tree, 7, Miss)
    /\ [][(last'.op = "insert" /\ last'.ok /\ last'.splits >= 1) =>
            LET k    == last'.key
                p    == InsertLeaf(heap, root, k)
                node == heap[p]
                i    == InsertIndex(node, k)
                fk   == InsertAt(node.keys, i, k)
                fv   == InsertAt(node.values, i, last'.value)
                mid  == M \div 2
                new  == {q \in DOMAIN heap' \ DOMAIN heap : heap'[q].is_leaf}
            IN  /\ node.num_keys = M - 1
                /\ heap'[p] = [node EXCEPT !.keys = SubSeq(fk, 1, mid),
                                           !.values = SubSeq(fv, 1, mid),
                                           !.num_keys = mid]
                /\ Cardinality(new) = 1
                /\ \A q \in new :
                     /\ heap'[q] = [Node(TRUE) EXCEPT
                                      !.keys = SubSeq(fk, mid + 1, M),
                                      !.values = SubSeq(fv, mid + 1, M),
                                      !.num_keys = M - mid]
                     /\ q \in NodesOf(heap', root')
                     /\ \A kk \in ProbeKeys \cup FreshKeys :
                          SepCount(heap', root', kk) =
                            SepCount(heap, root, kk)
                            + (IF kk = heap'[q].keys[1] THEN 1 ELSE 0)
                /\ \A l \in DOMAIN heap \ {p} :
                     heap[l].is_leaf => heap'[l] = heap[l]]_vars

\* C20 witness: the fourth of the inserts 10, 20, 5, 6 split the root leaf
C20_Witness ==
    /\ M = 4 /\ nops = 4 /\ InsertDone /\ last.splits = 1
    /\ KeysIn(heap, root) = {5, 6, 10, 20}

\* the internal node of the tree at r that has p among its children
ParentOf(h, r, p) ==
    CHOOSE q \in NodesOf(h, r) :
      ~h[q].is_leaf /\ \E j \in 1 .. h[q].num_keys + 1 : h[q].children[j] = p

\* C21 (internal split, move-up): when an insert brings an internal node to
\* num_keys = M, keys[floor(M/2)] goes to the parent and stays in neither
\* half; the old node keeps keys [0, mid) and children [0, mid], the new node
\* gets keys (mid, M) and children [mid+1, M], so it holds num_keys + 1
\* children and every child of the node is in exactly one half; and root
\* growth builds a new root of exactly one key over [old root, new sibling].
C21_InternalSplit ==
    [][/\ (last'.op = "insert" /\ last'.ok /\ last'.splits >= 2) =>
            LET k    == last'.key
                lf   == InsertLeaf(heap, root, k)
                p    == ParentOf(heap, root, lf)
                node == heap[p]
                i    == InsertIndex(node, k)
                nl   == CHOOSE q \in DOMAIN heap' \ DOMAIN heap : heap'[q].is_leaf
                fk   == InsertAt(node.keys, i, heap'[nl].keys[1])
                fc   == InsertAt(node.children, i + 1, nl)
                mid  == M \div 2
                new  == {q \in DOMAIN heap' \ DOMAIN heap :
                           ~heap'[q].is_leaf /\ (q # root' \/ root' = root)}
            IN  /\ node.num_keys = M - 1
                /\ Cardinality({fc[j] : j \in 1 .. M + 1}) = M + 1
                /\ heap'[p] = [node EXCEPT !.keys = SubSeq(fk, 1, mid),
                                           !.children = SubSeq(fc, 1, mid + 1),
                                           !.num_keys = mid]
                /\ Cardinality(new) = 1
                /\ \A n \in new :
                     /\ heap'[n] = [Node(FALSE) EXCEPT
                                      !.keys = SubSeq(fk, mid + 2, M),
                                      !.children = SubSeq(fc, mid + 2, M + 1),
                                      !.num_keys = M - mid - 1]
                     /\ Len(heap'[n].children) = heap'[n].num_keys + 1
                     /\ heap'[p].keys \o <<fk[mid + 1]>> \o heap'[n].keys = fk
                     /\ heap'[p].children \o heap'[n].children = fc
                     /\ p = root =>
                          /\ last'.grew = 1
                          /\ heap'[root'] = [Node(FALSE) EXCEPT
                                               !.keys = <<fk[mid + 1]>>,
                                               !.children = <<root, n>>,
                                               !.num_keys = 1]
       /\ (last'.op = "insert" /\ last'.ok /\ last'.grew = 1) =>
            /\ root' \notin DOMAIN heap
            /\ ~heap'[root'].is_leaf
            /\ heap'[root'].num_keys = 1
            /\ Len(heap'[root'].keys) = 1 /\ Len(heap'[root'].children) = 2
            /\ heap'[root'].children[1] = root
            /\ heap'[root'].children[2] \in DOMAIN heap' \ DOMAIN heap
            /\ heap'[root'].children[2] # root']_vars

\* C21 witness: an insert split the internal root; the new root has one key
\* over the old root and its new sibling, both internal
C21_Witness ==
    /\ InsertDone /\ last.splits = 2 /\ last.grew = 1
    /\ heap[root].num_keys = 1
    /\ \A j \in 1 .. 2 : ~heap[heap[root].children[j]].is_leaf
    /\ heap[heap[root].children[2]].num_keys = M - (M \div 2) - 1

\* C22 (failed insert keeps the data): an insert that fails with OutOfArena
\* loses nothing: every key the lookups found before the call they find
\* afterwards with the same value; and the failed allocation does not advance
\* the arena offset (it stands where the allocations that succeeded left it).
\* Stated for the keys other than the one being inserted, whose own entry a
\* repeated insert doubles.
C22_FailedInsertKeepsData ==
    [][(last'.op = "insert" /\ ~last'.ok) =>
         /\ last'.what = OutOfArena
         /\ \A j \in ProbeKeys \ {last'.key} :
              findLinear(Tree, j).found => AllFind(Tree', j, findLinear(Tree, j))
         /\ get_used_memory(arena') =
              get_used_memory(arena) + last'.splits * AlignedBytes(SizeofNode)]_vars

\* the number of nodes' worth of arena taken between arenas ar and ar2
NodesAllocated(ar, ar2) ==
    (get_used_memory(ar2) - get_used_memory(ar)) \div RoundUp(SizeofNode, CacheLine)

\* C23 (allocations of one insert), as the claim has it: a single insert
\* allocates at most depth + 1 new nodes, depth being the length of the
\* root-to-leaf paths before the insert (a lone leaf has depth 0, as in the
\* balance property); an insert that splits nothing allocates none.
C23_DepthPlusOne ==
    [][last'.op = "insert" =>
         /\ NodesAllocated(arena, arena') <= Depth + 1
         /\ last'.splits = 0 => NodesAllocated(arena, arena') = 0]_vars

\* C23, amended: a single insert allocates at most depth + 2 new nodes (one
\* per level of the path, a lone leaf being one level, and one for a new
\* root), each of them a node of the heap; an insert that splits nothing
\* allocates none.
C23_DepthPlusTwo ==
    [][last'.op = "insert" =>
         /\ NodesAllocated(arena, arena') <= Depth + 2
         /\ NodesAllocated(arena, arena') = NodesCreated' - NodesCreated
         /\ NodesCreated' - NodesCreated = last'.splits + last'.grew
         /\ last'.splits = 0 => NodesAllocated(arena, arena') = 0]_vars

\* C23 witness: an insert allocated one node per level and a new root (the
\* depth is now one more than before), using the arena up
C23_Witness ==
    /\ InsertDone /\ last.grew = 1
    /\ last.splits + last.grew = Depth + 1
    /\ get_used_memory(arena) = get_capacity(arena)

\* C24 (remove-then-find): in every tree reached by successful inserts (keys
\* may repeat) and removes, immediately after remove(k) each of the three
\* lookups of k returns false, and for every other key j each lookup returns
\* what the lookup of j returned before the remove.
C24_RemoveThenFind ==
    [][last'.op = "remove" =>
         /\ AllFind(Tree', last'.key, Miss)
         /\ \A j \in ProbeKeys \ {last'.key} :
              AllFind(Tree', j, findLinear(Tree, j))]_vars

====
